---- MODULE Spec2Model ----
(***************************************************************************)
(* UintArray (src/src/lib.rs): an array of small unsigned values packed in *)
(* one u128.                                                               *)
(*                                                                         *)
(* Representation.  A u128 that carries a bit pattern (the packed word, an *)
(* item, a mask) is the set of its set bit positions, a subset of 0..127:  *)
(* TLC's integers are 32 bits wide, the program's are 128.  The bitwise    *)
(* operators of the source are set operations, the shifts move positions   *)
(* and drop what leaves 0..127, as the u128 shifts do.  A u128 that        *)
(* carries a small count (size, len, cap, pos, offset) is a natural.       *)
(***************************************************************************)
EXTENDS Naturals, Integers, Sequences, FiniteSets

\* ------------------------------------------------------------- u128 bits

\* Width of the backing integer: size_of::<u128>() * 8.
WORD_BITS == 128

BitPos == 0 .. (WORD_BITS - 1)

RECURSIVE Pow2(_)
Pow2(n) == IF n = 0 THEN 1 ELSE 2 * Pow2(n - 1)

\* The bit pattern of a small natural (n < 2^31).
BitsOf(n) == { i \in 0 .. 30 : (n \div Pow2(i)) % 2 = 1 }

\* The natural a bit pattern within bits 0..30 stands for.
RECURSIVE ValueOf(_)
ValueOf(S) ==
  IF S = {} THEN 0
  ELSE LET m == CHOOSE x \in S : TRUE IN Pow2(m) + ValueOf(S \ {m})

BitAnd(a, b) == a \cap b
BitOr(a, b) == a \cup b
BitNot(a) == BitPos \ a

\* a << n and a >> n on u128, for a shift amount n < 128 (bits shifted out are lost).
Shl(a, n) == { b + n : b \in { x \in a : x + n < WORD_BITS } }
Shr(a, n) == { b - n : b \in { x \in a : x >= n } }

\* a > b on u128: the highest bit in which they differ is set in a.
MaxBit(S) == CHOOSE x \in S : \A y \in S : y <= x
Gt(a, b) ==
  LET d == (a \ b) \cup (b \ a) IN d # {} /\ MaxBit(d) \in a

\* ------------------------------------------------------------- constants

SIZE_BITS == 3
SIZE_MASK == BitsOf(7)
LEN_BITS == 5
LEN_MASK == Shl(BitsOf(31), SIZE_BITS)
META_BITS == SIZE_BITS + LEN_BITS

\* Option<u128>: None is the empty tuple, Some(v) the one-tuple <<v>>.
None == << >>
Some(v) == << v >>

\* A panic, named by the failure of spec section 7 its message stands for.
NoPanic == "none"
Panic(kind) == [ok |-> FALSE, ua |-> {}, err |-> kind]
Ok(data) == [ok |-> TRUE, ua |-> data, err |-> NoPanic]

\* ------------------------------------------------------------- layout

\* (1 << size) - 1, for size < 128.
_mask(size) == 0 .. (size - 1)

_size(data) == Pow2(ValueOf(BitAnd(data, SIZE_MASK)))

_len(data) == ValueOf(Shr(BitAnd(data, LEN_MASK), SIZE_BITS))

_cap(size) == (WORD_BITS - META_BITS) \div size

size(data) == _size(data)
len(data) == _len(data)
cap(data) == _cap(size(data))

_set_len(data, new_len) ==
  BitOr(BitAnd(data, BitNot(LEN_MASK)), Shl(BitsOf(new_len), SIZE_BITS))

_at(data, sz, offset) ==
  Some(Shr(BitAnd(Shl(_mask(sz), offset), data), offset))

at(data, pos) ==
  IF pos >= len(data) THEN None
  ELSE _at(data, size(data), size(data) * pos + META_BITS)

\* Mutant: the capacity check off by one (len > cap instead of len >= cap).
_check_insert_panic_gt(sz, ln, item) ==
  IF ln > _cap(sz) THEN "CapacityExceeded"
  ELSE IF BitAnd(_mask(sz), item) # item THEN "ValueOutOfRange"
  ELSE NoPanic

\* NoPanic when the item can be inserted, else the panic.
_check_insert_panic(sz, ln, item) ==
  IF ln >= _cap(sz) THEN "CapacityExceeded"
  ELSE IF BitAnd(_mask(sz), item) # item THEN "ValueOutOfRange"
  ELSE NoPanic

\* ------------------------------------------------------------- construction

RECURSIVE FloorLog2(_)
FloorLog2(n) == IF n <= 1 THEN 0 ELSE 1 + FloorLog2(n \div 2)

\* (size as f32).log2() as u128 truncates (and sends -inf, the log of 0, to 0); the
\* float comparison then accepts exactly the sizes whose log2 is an integer.
new_size(sz) ==
  IF sz > (WORD_BITS \div 8) * 4 THEN Panic("SizeTooLarge")
  ELSE LET size_log_u == FloorLog2(sz) IN
       IF sz = 0 \/ Pow2(size_log_u) # sz THEN Panic("NotPowerOfTwo")
       ELSE Ok(BitsOf(size_log_u))

\* new::<T>(), by size_of::<T>() in bytes.
new(bytes) == new_size(bytes * 8)

\* Mutant: from rejecting a full instance (len >= cap instead of len > cap).
from_rejects_full(data) ==
  IF len(data) >= cap(data) THEN Panic("InvalidLength") ELSE Ok(data)

\* From<u128>::from.
from(data) ==
  IF len(data) > cap(data) THEN Panic("InvalidLength") ELSE Ok(data)

\* ------------------------------------------------------------- mutation

append(data, item) ==
  LET ln == len(data)
      sz == size(data)
      chk == _check_insert_panic(sz, ln, item)
  IN IF chk # NoPanic THEN Panic(chk)
     ELSE Ok(BitOr(_set_len(data, ln + 1), Shl(item, ln * sz + META_BITS)))

insert(data, pos, item) ==
  LET ln == len(data)
      sz == size(data)
      chk == _check_insert_panic(sz, ln, item)
      p == IF pos > ln THEN ln ELSE pos
      offset == p * sz + META_BITS
      pos_mask == _mask(offset)
  IN IF chk # NoPanic THEN Panic(chk)
     ELSE Ok(BitOr(BitOr(BitAnd(_set_len(data, ln + 1), pos_mask),
                         Shl(BitAnd(data, BitNot(pos_mask)), sz)),
                   Shl(item, offset)))

\* The iterator handed to extend: pat.cycle().take(n), endless when n = Endless.
Endless == -1
HasNext(it, k) == Len(it.pat) > 0 /\ (it.n = Endless \/ k <= it.n)
Nth(it, k) == it.pat[((k - 1) % Len(it.pat)) + 1]

\* The for loop of extend, as the state it ends in.  It takes elements until the
\* iterator ends or until the one that makes iter_len exceed cap, where it panics
\* (after updating max, before storing the element); items holds element k at
\* bit (k - 1) * size, for every element taken before that.
_extend_loop(it, sz, cp) ==
  LET panics == Len(it.pat) > 0 /\ (it.n = Endless \/ it.n > cp)
      iter_len == IF panics THEN cp + 1
                  ELSE IF Len(it.pat) = 0 THEN 0 ELSE it.n
      stored == IF panics THEN cp ELSE iter_len
      seen == { Nth(it, k) : k \in 1 .. iter_len }
  IN [panic |-> panics,
      iter_len |-> iter_len,
      max |-> IF seen = {} THEN {}
              ELSE CHOOSE m \in seen : \A i \in seen : ~Gt(i, m),
      items |-> UNION { Shl(Nth(it, k), (k - 1) * sz) : k \in 1 .. stored }]

extend(data, it) ==
  LET ln == len(data)
      sz == size(data)
      cp == cap(data)
      loop == _extend_loop(it, sz, cp)
      new_len == ln + loop.iter_len
      chk == _check_insert_panic(sz, new_len, loop.max)
  IN IF loop.panic THEN Panic("CapacityExceeded")
     ELSE IF chk # NoPanic THEN Panic(chk)
     ELSE Ok(BitOr(_set_len(data, new_len), Shl(loop.items, sz * ln + META_BITS)))

\* How many elements extend takes from the iterator before it returns or panics.
extend_consumed(data, it) ==
  _extend_loop(it, size(data), cap(data)).iter_len

\* Mutant: clear resetting the length only, leaving the data region as it was.
clear_keeps_data(data) == BitAnd(data, BitNot(LEN_MASK))

clear(data) == BitAnd(data, SIZE_MASK)

\* Mutant: the scan keeps going and returns the last matching index.
_index_last(data, item, ln, sz) ==
  LET mask == _mask(sz)
      hit(i) == Shr(BitAnd(data, Shl(mask, i * sz + META_BITS)), i * sz + META_BITS) = item
  IN IF \E i \in 0 .. (ln - 1) : hit(i)
     THEN Some(CHOOSE i \in 0 .. (ln - 1) : hit(i) /\ \A j \in (i + 1) .. (ln - 1) : ~hit(j))
     ELSE None

\* _until with the closure of _index: the first i < ln whose element is item.
_index(data, item, ln, sz) ==
  LET mask == _mask(sz)
      hit(i) == Shr(BitAnd(data, Shl(mask, i * sz + META_BITS)), i * sz + META_BITS) = item
  IN IF \E i \in 0 .. (ln - 1) : hit(i)
     THEN Some(CHOOSE i \in 0 .. (ln - 1) : hit(i) /\ \A j \in 0 .. (i - 1) : ~hit(j))
     ELSE None

\* 1 << size in _until overflows for size = 128: a panic where the build checks
\* overflow, and 1 << 0 (so the mask 0) where it wraps.
remove(data, item, overflow_checks) ==
  LET ln == len(data)
      sz == size(data)
      pos == _index(data, item, ln, sz % WORD_BITS)
      offset == pos[1] * sz + META_BITS
      pos_mask == _mask(offset)
  IN IF sz >= WORD_BITS /\ overflow_checks THEN Panic("ShiftOverflow")
     ELSE IF pos = None THEN Ok(data)
     ELSE Ok(BitOr(BitAnd(_set_len(data, ln - 1), pos_mask),
                   BitAnd(Shr(BitAnd(data, BitNot(pos_mask)), sz), BitNot(pos_mask))))

\* Mutant: pop shifting down without masking off what lands below the position.
pop_unmasked(data, pos) ==
  LET ln == len(data)
      sz == size(data)
      offset == pos * sz + META_BITS
      pos_mask == _mask(offset)
  IN IF pos >= ln THEN [ua |-> data, item |-> None]
     ELSE [ua |-> BitOr(BitAnd(_set_len(data, ln - 1), pos_mask),
                        Shr(BitAnd(data, BitNot(pos_mask)), sz)),
           item |-> _at(data, sz, offset)]

pop(data, pos) ==
  LET ln == len(data)
      sz == size(data)
      offset == pos * sz + META_BITS
      pos_mask == _mask(offset)
  IN IF pos >= ln THEN [ua |-> data, item |-> None]
     ELSE [ua |-> BitOr(BitAnd(_set_len(data, ln - 1), pos_mask),
                        BitAnd(Shr(BitAnd(data, BitNot(pos_mask)), sz),
                               BitNot(pos_mask))),
           item |-> _at(data, sz, offset)]

\* ------------------------------------------------------------- inputs

\* Calls a run makes after its constructor.
MaxSteps == 2
\* Positions 0..MaxPos are tried, and LastPos, the largest length the 5-bit field
\* holds.
MaxPos == 2
LastPos == Pow2(LEN_BITS) - 1
\* Iterators hand out up to MaxTake elements, or CapTake (past every capacity), or
\* never end.
MaxTake == 3

Positions == (0 .. MaxPos) \cup {LastPos}

\* Items tried on an instance of element width sz: 0, 1, the largest that fits and
\* the smallest that does not.
Items(sz) == { {}, {0}, _mask(sz) \cap BitPos, {sz} \cap BitPos }

\* Element sizes asked of new_size, and type sizes in bytes asked of new.
Sizes == {0, 1, 2, 3, 4, 8, 15, 16, 32, 64, 65, 128}
TypeBytes == {0, 1, 2, 3, 4, 8, 16}

\* Iterators tried on an instance: a few short ones, the ones that end just below,
\* at and just above the remaining capacity and the 5-bit length field, and an
\* endless one; over items that fit, items that do not, and both.
Takes(data) ==
  { n \in (0 .. MaxTake)
          \cup { cap(data) - len(data) + d : d \in {-1, 0, 1} }
          \cup { LastPos - len(data), LastPos + 1 - len(data) } : n >= 0 }
    \cup {Endless}
Patterns(sz) ==
  { << {0} >>, << _mask(sz) \cap BitPos >>, << {}, {0} >>, << {0}, {sz} \cap BitPos >> }
Iters(data) == { [pat |-> p, n |-> n] : p \in Patterns(size(data)), n \in Takes(data) }

\* Raw words handed to from: every size-class, lengths around the capacity, and
\* three fillings of the data region: zero, all ones, and live elements 1,0,1,..
\* under dead bits that are all ones.
RawLens(sc) ==
  { n \in {0, 2, _cap(Pow2(sc)) - 1, _cap(Pow2(sc)), _cap(Pow2(sc)) + 1, LastPos} :
      n >= 0 /\ n <= LastPos }
Fillings == {"zero", "ones", "alt"}
RawData(sc, ln, fill) ==
  LET w == Pow2(sc)
      live == { b \in BitPos : b >= META_BITS /\ b < META_BITS + ln * w }
      dead == { b \in BitPos : b >= META_BITS + ln * w }
  IN CASE fill = "zero" -> {}
       [] fill = "ones" -> live \cup dead
       [] OTHER -> { b \in live : (b - META_BITS) % (2 * w) = 0 } \cup dead
RawInputs ==
  { BitOr(BitsOf(sc + 8 * ln), RawData(sc, ln, fill)) :
      <<sc, ln, fill>> \in { t \in (0 .. 7) \X (0 .. LastPos) \X Fillings :
                               t[2] \in RawLens(t[1]) } }

\* ------------------------------------------------------------- state

VARIABLES
  ua,      \* the instance the run holds (UintArray.0)
  origin,  \* the constructor it came from: "new" or "from"
  steps,   \* calls made since; a word taken over by from counts as one call old
  last     \* the last call: its inputs, the instance it was made on, its outcome

vars == << ua, origin, steps, last >>

NoIter == [pat |-> << >>, n |-> 0]
Call(op, pre) ==
  [op |-> op, pre |-> pre, item |-> {}, pos |-> 0, sz |-> 0, it |-> NoIter,
   checks |-> FALSE, ok |-> TRUE, err |-> NoPanic, out |-> None, consumed |-> 0]

Init ==
  \E sz \in Sizes :
    /\ new_size(sz).ok
    /\ ua = new_size(sz).ua
    /\ origin = "new"
    /\ steps = 0
    /\ last = [Call("new_size", {}) EXCEPT !.sz = sz]

\* A run makes its constructor calls first.  A panic ends the run: the state keeps
\* the instance the run had, and no call follows.
Constructors == {"new_size", "new", "from"}
Construct(r, from_new, call) ==
  /\ last.ok
  /\ last.op \in Constructors
  /\ ua' = IF r.ok THEN r.ua ELSE ua
  /\ origin' = IF r.ok THEN (IF from_new THEN "new" ELSE "from") ELSE origin
  /\ steps' = IF r.ok THEN (IF from_new THEN 0 ELSE 1) ELSE steps
  /\ last' = [call EXCEPT !.ok = r.ok, !.err = r.err]

CallNewSize ==
  \E sz \in Sizes :
    Construct(new_size(sz), TRUE, [Call("new_size", {}) EXCEPT !.sz = sz])

CallNew ==
  \E bytes \in TypeBytes :
    Construct(new(bytes), TRUE, [Call("new", {}) EXCEPT !.sz = bytes])

CallFrom ==
  \E data \in RawInputs :
    Construct(from(data), FALSE, Call("from", data))

\* A mutator that panics returns no instance, and ends the run.
Mutate(r, call) ==
  /\ last.ok
  /\ steps < MaxSteps
  /\ ua' = IF r.ok THEN r.ua ELSE ua
  /\ steps' = steps + 1
  /\ last' = [call EXCEPT !.ok = r.ok, !.err = r.err]
  /\ UNCHANGED origin

CallAppend ==
  \E item \in Items(size(ua)) :
    Mutate(append(ua, item), [Call("append", ua) EXCEPT !.item = item])

CallInsert ==
  \E pos \in Positions, item \in Items(size(ua)) :
    Mutate(insert(ua, pos, item),
           [Call("insert", ua) EXCEPT !.item = item, !.pos = pos])

CallExtend ==
  \E it \in Iters(ua) :
    Mutate(extend(ua, it),
           [Call("extend", ua) EXCEPT !.it = it, !.consumed = extend_consumed(ua, it)])

CallClear ==
  Mutate(Ok(clear(ua)), Call("clear", ua))

CallRemove ==
  \E item \in Items(size(ua)), overflow_checks \in BOOLEAN :
    Mutate(remove(ua, item, overflow_checks),
           [Call("remove", ua) EXCEPT !.item = item, !.checks = overflow_checks])

CallPop ==
  \E pos \in Positions :
    Mutate(Ok(pop(ua, pos).ua),
           [Call("pop", ua) EXCEPT !.pos = pos, !.out = pop(ua, pos).item])

Next ==
  \/ CallNewSize
  \/ CallNew
  \/ CallFrom
  \/ CallAppend
  \/ CallInsert
  \/ CallExtend
  \/ CallClear
  \/ CallRemove
  \/ CallPop

Spec == Init /\ [][Next]_vars

\* ------------------------------------------------------------- claims

\* What the claims mean by their words, stated apart from the code's own helpers.
Widths == {1, 2, 4, 8, 16, 32, 64}
Fits(item, w) == \A b \in item : b < w
Field(word, lo, n) == ValueOf({ b - lo : b \in { x \in word : x >= lo /\ x < lo + n } })
Valid(a) == size(a) \in Widths /\ len(a) <= cap(a)
Min(x, y) == IF x < y THEN x ELSE y
Finite(it) == it.n # Endless
Count(it) == IF Len(it.pat) = 0 THEN 0 ELSE it.n
AllFit(it, w) == \A k \in 1 .. Len(it.pat) : Fits(it.pat[k], w)
Mutators == {"append", "insert", "extend", "remove", "pop", "clear"}

\* The word after appending elements lo..hi of the iterator one by one.  (The
\* range is split in halves and the first half's word is bound before the second
\* is started, which keeps the evaluation shallow.)
RECURSIVE AppendRange(_, _, _, _)
AppendRange(a, it, lo, hi) ==
  IF lo > hi THEN a
  ELSE IF lo = hi THEN append(a, Nth(it, lo)).ua
  ELSE LET mid == (lo + hi) \div 2 IN
       CHOOSE r \in { AppendRange(half, it, mid + 1, hi) :
                        half \in { AppendRange(a, it, lo, mid) } } : TRUE
AppendEach(a, it, k) == AppendRange(a, it, 1, k)

\* C1: on an instance built from new_size by successful mutator calls, with
\* len < cap and an item below 2^width, append succeeds, makes len exactly one
\* more, stores the item at the old len and leaves the elements before it alone.
C1_AppendAddsOne ==
  (/\ last.op = "append"
   /\ origin = "new"
   /\ len(last.pre) < cap(last.pre)
   /\ Fits(last.item, size(last.pre)))
  => /\ last.ok
     /\ len(ua) = len(last.pre) + 1
     /\ at(ua, len(last.pre)) = Some(last.item)
     /\ \A i \in 0 .. (len(last.pre) - 1) : at(ua, i) = at(last.pre, i)

\* C2: extend with k values that all fit fails with CapacityExceeded exactly when
\* len + k > cap; when len + k <= cap it succeeds and returns the word that
\* appending the k values one by one returns.
C2_ExtendIsRepeatedAppend ==
  (/\ last.op = "extend"
   /\ Finite(last.it)
   /\ AllFit(last.it, size(last.pre)))
  => LET k == Count(last.it) IN
     /\ (~last.ok /\ last.err = "CapacityExceeded") <=> (len(last.pre) + k > cap(last.pre))
     /\ len(last.pre) + k <= cap(last.pre)
          => last.ok /\ ua = AppendEach(last.pre, last.it, k)

\* C3: extend never takes more than cap - len + 1 elements from its iterator, it
\* fails with CapacityExceeded once it has taken more than cap - len, and over an
\* endless iterator it always fails.
C3_ExtendFailsFast ==
  last.op = "extend"
  => /\ last.consumed <= cap(last.pre) - len(last.pre) + 1
     /\ last.consumed > cap(last.pre) - len(last.pre)
          => ~last.ok /\ last.err = "CapacityExceeded"
     /\ ~Finite(last.it) => ~last.ok

\* C4: on a valid instance with len < cap and an item below 2^width, insert(pos,
\* item) puts the item at p = min(pos, len), keeps the elements below p, moves the
\* elements from p on up by one, makes len one more, and for pos >= len returns the
\* word append returns.
C4_InsertShiftsUp ==
  (/\ last.op = "insert"
   /\ Valid(last.pre)
   /\ len(last.pre) < cap(last.pre)
   /\ Fits(last.item, size(last.pre)))
  => LET a == last.pre
         p == Min(last.pos, len(a))
     IN /\ last.ok
        /\ len(ua) = len(a) + 1
        /\ at(ua, p) = Some(last.item)
        /\ \A i \in 0 .. (p - 1) : at(ua, i) = at(a, i)
        /\ \A i \in p .. (len(a) - 1) : at(ua, i + 1) = at(a, i)
        /\ last.pos >= len(a) => ua = append(a, last.item).ua

\* C5: every instance a constructor returns, and every instance mutators derive
\* from it, has an element width that is a power of two and at most 64; from
\* accepts no word that decodes to the width 128.
C5_WidthAtMostHalf ==
  size(ua) \in Widths

\* C6: from fails, with InvalidLength, exactly when the length in bits 3..7 exceeds
\* floor(120 / 2^(bits 0..2)), and otherwise returns the word as it is; so the raw
\* value of an instance with len <= cap is accepted and gives the same size, len
\* and elements.
C6_FromRawRoundTrip ==
  /\ last.op = "from"
       => LET tooLong == Field(last.pre, 3, 5) > 120 \div Pow2(Field(last.pre, 0, 3))
          IN /\ ~last.ok <=> tooLong
             /\ ~last.ok => last.err = "InvalidLength"
             /\ last.ok => ua = last.pre
  /\ len(ua) <= cap(ua)
       => LET b == from(ua) IN
          /\ b.ok
          /\ size(b.ua) = size(ua)
          /\ len(b.ua) = len(ua)
          /\ \A i \in 0 .. LastPos : at(b.ua, i) = at(ua, i)

C6_Witness ==
  /\ last.op = "from"
  /\ last.ok
  /\ len(ua) = cap(ua)
  /\ len(ua) > 0
  /\ ~from(BitOr(ua, {3, 4, 5, 6, 7})).ok

\* The word with its dead data bits (those at or above 8 + len * width) cleared: it
\* agrees with the word on size-class, length and every live element.
Clean(a) == { b \in a : b < META_BITS + len(a) * size(a) }

\* The outcome of making the call c on the instance a.
Redo(c, a) ==
  CASE c.op = "append" -> append(a, c.item)
    [] c.op = "insert" -> insert(a, c.pos, c.item)
    [] c.op = "extend" -> extend(a, c.it)
    [] c.op = "remove" -> remove(a, c.item, c.checks)
    [] c.op = "pop" -> Ok(pop(a, c.pos).ua)
    [] OTHER -> Ok(clear(a))

\* C7: two valid words that agree on size-class, length and every live element
\* and differ only in dead data bits give, under the same mutator call, instances
\* with the same len and the same at(i) for every i.
C7_DeadBitsNeverRead ==
  (/\ last.op \in Mutators
   /\ last.ok
   /\ Valid(last.pre))
  => LET twin == Redo(last, Clean(last.pre)) IN
     /\ twin.ok
     /\ len(twin.ua) = len(ua)
     /\ \A i \in 0 .. LastPos : at(twin.ua, i) = at(ua, i)

\* C8: on a valid instance, pop(pos) with pos < len returns the element at pos
\* and an instance one shorter, into which insert(pos, that element) succeeds and
\* gives back the original word bit for bit; with pos >= len it returns the
\* instance unchanged and None.
C8_PopThenInsertRestores ==
  (last.op = "pop" /\ Valid(last.pre))
  => LET a == last.pre IN
     IF last.pos < len(a)
     THEN /\ last.out # None
          /\ last.out = at(a, last.pos)
          /\ len(ua) = len(a) - 1
          /\ insert(ua, last.pos, last.out[1]).ok
          /\ insert(ua, last.pos, last.out[1]).ua = a
     ELSE ua = a /\ last.out = None

C8_Witness ==
  /\ last.op = "pop"
  /\ Valid(last.pre)
  /\ last.pos > 0
  /\ last.pos + 1 < len(last.pre)
  /\ last.out = Some({0})
  /\ Clean(last.pre) # last.pre
  /\ insert(ua, last.pos, last.out[1]).ua = last.pre

\* C9: after any run of successful mutator calls from new_size (any width) or
\* from a word that from accepted, 0 <= len <= cap; a call that fails gives no
\* instance (the run holds the one it had).
C9_LenWithinCap ==
  /\ len(ua) >= 0
  /\ len(ua) <= cap(ua)
  /\ (~last.ok /\ last.op \in Mutators) => ua = last.pre

C9_Witness ==
  /\ last.op \in {"append", "insert", "extend"}
  /\ last.ok
  /\ size(ua) \in {4, 8, 16, 32, 64}
  /\ len(ua) = cap(ua)
  /\ ~append(ua, {}).ok

\* C10: on a valid instance, remove(value) returns the word unchanged when no
\* element equals value; otherwise, with p the first index holding it, it returns
\* what pop(p) returns: len one less, the elements below p in place, those above p
\* moved down by one.
C10_RemoveFirstOccurrence ==
  (last.op = "remove" /\ Valid(last.pre))
  => LET a == last.pre
         found == { i \in 0 .. (len(a) - 1) : at(a, i) = Some(last.item) }
     IN /\ last.ok
        /\ found = {} => ua = a
        /\ found # {}
             => LET p == CHOOSE i \in found : \A j \in found : i <= j IN
                /\ ua = pop(a, p).ua
                /\ len(ua) = len(a) - 1
                /\ \A i \in 0 .. (p - 1) : at(ua, i) = at(a, i)
                /\ \A i \in p .. (len(a) - 2) : at(ua, i) = at(a, i + 1)

C10_Witness ==
  /\ last.op = "remove"
  /\ Valid(last.pre)
  /\ last.ok
  /\ Cardinality({ i \in 0 .. (len(last.pre) - 1) :
                     at(last.pre, i) = Some(last.item) }) >= 2
  /\ at(last.pre, 0) # Some(last.item)
  /\ len(ua) = len(last.pre) - 1

\* The values the iterator hands out, and whether one of them does not fit.
Elements(it) ==
  IF Len(it.pat) = 0 THEN {}
  ELSE { Nth(it, k) : k \in 1 .. (IF Finite(it) THEN Min(it.n, Len(it.pat))
                                   ELSE Len(it.pat)) }
SomeUnfit(it, w) == \E e \in Elements(it) : ~Fits(e, w)

\* C11 (the part about storing): append and insert of an item >= 2^width, and
\* extend over a sequence holding one, fail and return no instance.
C11_NoOutOfRangeStored ==
  /\ (last.op \in {"append", "insert"} /\ ~Fits(last.item, size(last.pre)))
       => ~last.ok /\ ua = last.pre
  /\ (last.op = "extend" /\ SomeUnfit(last.it, size(last.pre)))
       => ~last.ok /\ ua = last.pre

\* C11 (the part about the single check): the fitness check extend makes on the
\* maximum it saw rejects exactly the sequences that hold a value >= 2^width.
C11_MaxCheckIsPerElement ==
  (/\ last.op = "extend"
   /\ Finite(last.it)
   /\ Count(last.it) <= cap(last.pre)
   /\ size(last.pre) \in Widths)
  => LET sz == size(last.pre)
         max == _extend_loop(last.it, sz, cap(last.pre)).max
     IN (BitAnd(_mask(sz), max) # max) <=> SomeUnfit(last.it, sz)

\* C11: append and insert of an item >= 2^width, and extend over a sequence
\* holding one, fail and return no instance; the check of the maximum rejects
\* exactly what a per-element check rejects; and where the capacity is not
\* exceeded (len + k <= cap) the failure of extend is ValueOutOfRange.
C11_OutOfRangeRejected ==
  /\ C11_NoOutOfRangeStored
  /\ C11_MaxCheckIsPerElement
  /\ (/\ last.op = "extend"
      /\ Finite(last.it)
      /\ SomeUnfit(last.it, size(last.pre))
      /\ len(last.pre) + Count(last.it) <= cap(last.pre))
       => ~last.ok /\ last.err = "ValueOutOfRange"

\* The data bits of the unused slots: those at or above 8 + len * width.
DeadBits(a) == { b \in a : b >= META_BITS + len(a) * size(a) }

\* C12: for the element widths 4, 8, 16, 32 and 64, every instance reached from
\* new_size by successful mutator calls has all its data bits at or above
\* 8 + len * width zero.
C12_UnusedSlotsClean ==
  (origin = "new" /\ size(ua) \in {4, 8, 16, 32, 64}) => DeadBits(ua) = {}

C12_Witness ==
  /\ origin = "new"
  /\ size(ua) \in {4, 8, 16, 32, 64}
  /\ last.op \in {"pop", "remove", "clear"}
  /\ last.ok
  /\ at(last.pre, len(last.pre) - 1) \notin {None, Some({})}
  /\ len(ua) < len(last.pre)
  /\ DeadBits(ua) = {}

====
